---- MODULE Spec2Model ----
(***************************************************************************)
(* canvas-dl: the versioned resource store (canvas/db.py), the model       *)
(* payloads and their hash normalisation (canvas/models.py), and the       *)
(* course / folder / file traversal with on-disk file versioning           *)
(* (canvas_dl/__init__.py), and the paginated API client                   *)
(* (canvas/__init__.py).                                                   *)
(***************************************************************************)
EXTENDS Integers, Sequences, FiniteSets, TLC

VARIABLES db, ret, remote, fs, run, aux, pg

vars == <<db, ret, remote, fs, run, aux, pg>>

(***************************************************************************)
(* Bounds and input domains                                                *)
(***************************************************************************)
\* total number of rows the store may hold over all tables
MaxRows == 3

\* number of times main() is started
MaxRuns == 3

\* number of pages a collection is served as
MaxPages == 3

\* number of items on a page
PageSizes == 0..2

\* readings of datetime.datetime.now(): a wall clock, so not monotonic
Times == {1, 2}

\* the non-volatile part of a remote JSON object
Bodies == {"a", "b"}

\* values of the `token` query parameter of a signed url
Tokens == {"t1", "t2"}

(***************************************************************************)
(* canvas/models.py: payloads                                              *)
(***************************************************************************)
\* a JSON value of a *_download_url key: null, a url string with or without
\* a `token` query parameter, or a string yarl.URL() rejects with ValueError
NullUrl == "null"

Url(tok) == IF tok = "t1" THEN "https://h/i?token=t1" ELSE "https://h/i?token=t2"

BareUrl == "https://h/i"

BadUrl(tok) == IF tok = "t1" THEN "https://h:x/i?token=t1" ELSE "https://h:x/i?token=t2"

UrlVals == {NullUrl, BareUrl} \cup {Url(k) : k \in Tokens} \cup {BadUrl(k) : k \in Tokens}

\* item._raw: the JSON object as fetched
Raws == [body : Bodies, image_download_url : UrlVals, banner_image_download_url : UrlVals]

Raw(b, i, n) == [body |-> b, image_download_url |-> i, banner_image_download_url |-> n]

\* str(URL(url).without_query_params('token')) under the isinstance/try guards
WithoutToken(u) == IF u \in {Url(k) : k \in Tokens} THEN BareUrl ELSE u

\* Model.to_db_json_hash_normalized
Model_to_db_json_hash_normalized(raw) == raw

\* Course.to_db_json_hash_normalized without the token stripping
Course_to_db_json_hash_normalized_Unstripped(raw) == Model_to_db_json_hash_normalized(raw)

\* Course.to_db_json_hash_normalized
Course_to_db_json_hash_normalized(raw) ==
    LET data == Model_to_db_json_hash_normalized(raw)
    IN  [data EXCEPT !.image_download_url = WithoutToken(@),
                     !.banner_image_download_url = WithoutToken(@)]

Tables == {"course", "folder", "file", "module", "moduleitem"}

\* per-table model class dispatch
to_db_json_hash_normalized(t, raw) ==
    IF t = "course" THEN Course_to_db_json_hash_normalized(raw)
    ELSE Model_to_db_json_hash_normalized(raw)

\* json.dumps of the normalized projection in place of item._raw
JsonDumps_Normalized(raw) ==
    <<"{", WithoutToken(raw.banner_image_download_url), raw.body,
      WithoutToken(raw.image_download_url), "}">>

\* json.dumps(item._raw, sort_keys=True): the members in key order
JsonDumps(raw) ==
    <<"{", raw.banner_image_download_url, raw.body, raw.image_download_url, "}">>

\* TypeAdapter(model).validate_json(data)._raw
ValidateJson(data) ==
    [body |-> data[3], image_download_url |-> data[4], banner_image_download_url |-> data[2]]

BodyCode(b) == IF b = "a" THEN 1 ELSE 2

UrlCode(u) ==
    IF u = NullUrl THEN 0 ELSE IF u = BareUrl THEN 1
    ELSE IF u = Url("t1") THEN 2 ELSE IF u = Url("t2") THEN 3
    ELSE IF u = BadUrl("t1") THEN 4 ELSE 5

\* the digest of a JSON object: distinct objects get distinct digests
Digest(j) ==
    BodyCode(j.body) * 100 + UrlCode(j.image_download_url) * 10
        + UrlCode(j.banner_image_download_url)

\* item.hash_for_db(...): the digest of the normalized projection
hash_for_db(t, raw) == Digest(to_db_json_hash_normalized(t, raw))

(***************************************************************************)
(* canvas/db.py: _DBResourceTable                                          *)
(***************************************************************************)
\* SELECT data_hash, version ... WHERE ids AND is_current = 1; fetchone()
CurrentIdx(rows, id) == {i \in 1..Len(rows) : rows[i].id = id /\ rows[i].is_current = 1}

Min(S) == CHOOSE x \in S : \A y \in S : x <= y

\* a SELECT with current_only=False: the first row of the identity
query_select_AllRows(rows, id) ==
    IF {i \in 1..Len(rows) : rows[i].id = id} = {} THEN <<>>
    ELSE LET r == rows[Min({i \in 1..Len(rows) : rows[i].id = id})]
         IN  <<r.data_hash, r.version>>

query_select(rows, id) ==
    IF CurrentIdx(rows, id) = {} THEN <<>>
    ELSE LET r == rows[Min(CurrentIdx(rows, id))] IN <<r.data_hash, r.version>>

\* an UPDATE that also resets saved_on
UpdateLastSeen_AndSavedOn(rows, id, version, now) ==
    [i \in 1..Len(rows) |->
        IF rows[i].id = id /\ rows[i].version = version
        THEN [rows[i] EXCEPT !.last_seen_on = now, !.saved_on = now] ELSE rows[i]]

\* UPDATE t SET last_seen_on = :last_seen_on WHERE ids AND version = :version
UpdateLastSeen(rows, id, version, now) ==
    [i \in 1..Len(rows) |->
        IF rows[i].id = id /\ rows[i].version = version
        THEN [rows[i] EXCEPT !.last_seen_on = now] ELSE rows[i]]

\* an UPDATE whose WHERE clause leaves out the id columns
UpdateNotCurrent_AnyIdentity(rows, id, version) ==
    [i \in 1..Len(rows) |->
        IF rows[i].version = version
        THEN [rows[i] EXCEPT !.is_current = 0] ELSE rows[i]]

\* UPDATE t SET is_current = 0 WHERE ids AND version = :version
UpdateNotCurrent(rows, id, version) ==
    [i \in 1..Len(rows) |->
        IF rows[i].id = id /\ rows[i].version = version
        THEN [rows[i] EXCEPT !.is_current = 0] ELSE rows[i]]

\* the unique index idx_<table>_current on the id columns WHERE is_current = 1
UniqueCurrentOk(rows, id) == CurrentIdx(rows, id) = {}

\* INSERT INTO t VALUES(ids, saved_on, last_seen_on, version, is_current, data, data_hash)
InsertRow(rows, id, now, version, data, data_hash) ==
    Append(rows, [id |-> id, saved_on |-> now, last_seen_on |-> now, version |-> version,
                  is_current |-> 1, data |-> data, data_hash |-> data_hash])

\* a version counter that skips a number
NewVersion_Skips(prev_version) == prev_version + 2

\* new_version = prev_version + 1
NewVersion(prev_version) == prev_version + 1

\* write statements that ignore dry_run
Writes_Always(dry_run) == TRUE

\* write statements guarded the wrong way round
Writes_OnlyDryRun(dry_run) == dry_run

\* `if not dry_run:` guarding every write statement
Writes(dry_run) == ~dry_run

\* the body of insert() inside `with self.__db_con:`; fail = k makes the k-th
\* write statement raise (a storage error), fail = 0 lets all of them succeed
insert_body(rows, t, id, raw, dry_run, now, fail) ==
    LET sel == query_select(rows, id)
        existing_none == sel = <<>>
        prev_version == IF existing_none THEN -1 ELSE sel[2]
        new_data == JsonDumps(raw)
        new_data_hash == hash_for_db(t, raw)
    IN  IF ~existing_none /\ sel[1] = new_data_hash
        THEN IF ~Writes(dry_run)
             THEN [rows |-> rows, raised |-> FALSE, wrote |-> FALSE, version |-> prev_version]
             ELSE IF fail = 1
             THEN [rows |-> rows, raised |-> TRUE, wrote |-> FALSE, version |-> -1]
             ELSE [rows |-> UpdateLastSeen(rows, id, prev_version, now),
                   raised |-> FALSE, wrote |-> FALSE, version |-> prev_version]
        ELSE LET new_version == NewVersion(prev_version)
                 marked == UpdateNotCurrent(rows, id, prev_version)
             IN  IF ~Writes(dry_run)
                 THEN [rows |-> rows, raised |-> FALSE, wrote |-> TRUE, version |-> new_version]
                 ELSE IF fail = 1
                 THEN [rows |-> rows, raised |-> TRUE, wrote |-> FALSE, version |-> -1]
                 ELSE IF fail = 2 \/ ~UniqueCurrentOk(marked, id)
                 THEN [rows |-> marked, raised |-> TRUE, wrote |-> FALSE, version |-> -1]
                 ELSE [rows |-> InsertRow(marked, id, now, new_version, new_data, new_data_hash),
                       raised |-> FALSE, wrote |-> TRUE, version |-> new_version]

\* a connection that keeps the statements executed before an exception
with_db_con_NoRollback(before, out) == out.rows

\* sqlite3.Connection as a context manager: commit on normal exit, rollback
\* on an exception
with_db_con(before, out) == IF out.raised THEN before ELSE out.rows

\* _DBResourceTable.insert: the table after the call and what the call returns
insert(rows, t, id, raw, dry_run, now, fail) ==
    LET out == insert_body(rows, t, id, raw, dry_run, now, fail)
    IN  [out EXCEPT !.rows = with_db_con(rows, out)]

\* a SELECT without `is_current = 1`: the oldest row of the identity
get_OldestRow(rows, id) ==
    IF {i \in 1..Len(rows) : rows[i].id = id} = {} THEN <<>>
    ELSE <<ValidateJson(rows[Min({i \in 1..Len(rows) : rows[i].id = id})].data)>>

\* _DBResourceTable.get: <<>> for None, else <<item._raw>> of the current row
get(rows, id) ==
    IF CurrentIdx(rows, id) = {} THEN <<>>
    ELSE <<ValidateJson(rows[Min(CurrentIdx(rows, id))].data)>>

(***************************************************************************)
(* The store driven directly: any caller, any order of inserts and gets    *)
(***************************************************************************)
\* identities (the id columns of id_to_column_dict) used per table
Idents(t) == IF t = "course" THEN {<<1>>} ELSE {}

\* payloads offered to insert
CourseItems ==
    {Raw("a", Url("t1"), Url("t1")), Raw("a", Url("t2"), Url("t1")),
     Raw("a", Url("t1"), Url("t2")), Raw("b", Url("t1"), Url("t1"))}

PlainItems == {Raw("a", Url("t1"), NullUrl), Raw("a", Url("t2"), NullUrl)}

Items(t) == IF t = "course" THEN CourseItems ELSE PlainItems

\* a dry run executes no write statement, so none can raise
FailPoints(dry_run) == IF dry_run THEN {0} ELSE 0..2

TotalRows(d) ==
    Len(d["course"]) + Len(d["folder"]) + Len(d["file"]) + Len(d["module"])
        + Len(d["moduleitem"])

\* the part of a url value that is not the `token` query parameter
UrlSansToken(u) == IF u = Url("t1") \/ u = Url("t2") THEN BareUrl ELSE u

\* two payloads are equal but for the token of one or both signed urls
TokenOnlyDiff(p, q) ==
    /\ p # q
    /\ p.body = q.body
    /\ UrlSansToken(p.image_download_url) = UrlSansToken(q.image_download_url)
    /\ UrlSansToken(p.banner_image_download_url) = UrlSansToken(q.banner_image_download_url)

\* how the payload of a call relates to the payload stored in the identity's
\* current row: "none" (no current row), "same", "volatile" (they differ,
\* and only in a url token), "content"
Relation(rows, id, raw) ==
    IF CurrentIdx(rows, id) = {} THEN "none"
    ELSE LET cur == ValidateJson(rows[Min(CurrentIdx(rows, id))].data)
         IN  IF cur = raw THEN "same"
             ELSE IF TokenOnlyDiff(cur, raw) THEN "volatile" ELSE "content"

NoRet == [op |-> "none", t |-> "course", id |-> <<>>, dry_run |-> FALSE, raised |-> FALSE,
          wrote |-> FALSE, version |-> -1, rel |-> "none", data |-> <<>>]

(***************************************************************************)
(* The remote site                                                         *)
(***************************************************************************)
\* contents of a downloadable file
Bytes == {"A", "B"}

\* two courses: course 1 has the root folder 10 with the subfolders 11 and
\* 12, one file (100, filename "x", in the root folder) and one module (5)
\* with one item (7); course 2 has the empty root folder 20
CourseIds == <<1, 2>>

RootFolderOf(course_id) == IF course_id = 1 THEN 10 ELSE 20

SubfoldersOf(folder_id) == IF folder_id = 10 THEN <<11, 12>> ELSE <<>>

FilesOf(folder_id) == IF folder_id = 10 THEN <<100>> ELSE <<>>

ModulesOf(course_id) == IF course_id = 1 THEN <<5>> ELSE <<>>

ModuleItemsOf(course_id, module_id) == IF module_id = 5 THEN <<7>> ELSE <<>>

CourseRaw == Raw("a", Url("t1"), Url("t1"))

FolderRaw(folder_id) == Raw(IF folder_id \in {10, 20} THEN "a" ELSE "b", NullUrl, NullUrl)

\* the JSON objects the file listing may return for file 100
FileRaws == {Raw("a", Url("t1"), NullUrl), Raw("b", Url("t1"), NullUrl)}

\* the request the site answers with a failure, if any: resolving the root
\* folder of course 1, the first page of the subfolders of folder 12, the
\* second page of the subfolders of folder 10, or the first page of the
\* files of folder 10
NoRemoteFault == [at |-> "none", id |-> 0, page |-> 0, kind |-> "none"]

RemoteFaults ==
    {NoRemoteFault}
        \cup {[at |-> "resolve", id |-> 1, page |-> 1, kind |-> k] : k \in {"status", "body"}}
        \cup {[at |-> "subfolders", id |-> 12, page |-> 1, kind |-> k] : k \in {"status", "body"}}
        \cup {[at |-> "subfolders", id |-> 10, page |-> 2, kind |-> k] : k \in {"status", "body"}}
        \cup {[at |-> "files", id |-> 10, page |-> 1, kind |-> k] : k \in {"status", "body"}}

RemoteStates == [raw : FileRaws, bytes : Bytes, fault : RemoteFaults]

(***************************************************************************)
(* The file system                                                         *)
(***************************************************************************)
\* what is at a path: nothing, a file with its bytes, or a directory with
\* its entries <<version index, bytes>> (named f'{index:05d} {filename}')
Absent == [kind |-> "absent", bytes |-> "-", entries |-> {}]

File(b) == [kind |-> "file", bytes |-> b, entries |-> {}]

Dir(e) == [kind |-> "dir", bytes |-> "-", entries |-> e]

Max(S) == CHOOSE x \in S : \A y \in S : x >= y

\* sorted(file_out_path.iterdir(), key=lambda p: p.name[:5], reverse=True),
\* then next(iter(...), None): <<>> or <<entry>>
latest_existing_version(path) ==
    IF path.entries = {} THEN <<>>
    ELSE LET top == Max({e[1] : e \in path.entries})
         IN  <<CHOOSE e \in path.entries : e[1] = top>>

\* hashlib.file_digest(f, sha256): a hash object
file_digest(b) == <<"sha256 object", b>>

\* download_hasher.digest(): bytes
digest(b) == <<"digest bytes", b>>

\* existing_version_hash != download_hash
HashesDiffer(existing_version_hash, download_hash) == existing_version_hash # download_hash

\* no download whatever the dry run said
ShouldDownload_Never(would_insert) == FALSE

\* a download attempted whatever the dry run said
ShouldDownload_Always(would_insert) == TRUE

\* `if would_insert:` (don't bother downloading if no metadata changes)
ShouldDownload(would_insert) == would_insert

(***************************************************************************)
(* __init__.py: main                                                       *)
(***************************************************************************)
\* the local variables of main(); before is the canonical path as it was
\* when the download finished; files_exc is the exception that ends the file
\* listing in progress. Of the run so far: steps are the steps taken for the
\* current file, faults the requests that failed, log the error lines
\* printed, queued the folders put on the work queue and visited the
\* folders whose two listings are over
Idle == [pc |-> "idle", courses |-> <<>>, queue |-> <<>>, cur_folder |-> 0, pending |-> <<>>,
         would_insert |-> FALSE, version_num |-> -1, download |-> "-", before |-> Absent,
         files_exc |-> "none", steps |-> <<>>, faults |-> <<>>, log |-> <<>>,
         queued |-> {}, visited |-> {}]

\* bookkeeping: runs started; whether a run has completed against the remote
\* as it is now; how the last run stopped and what the canonical path held
\* when the placement it stopped in began; interrupted: <<what the canonical
\* path held>> when a run was killed between a placement that put the
\* download on disk and the real insert, the remote being the same since
NoAux == [runs |-> 0, synced |-> FALSE, stop |-> "none", before |-> Absent,
          interrupted |-> <<>>]

\* canon: file_out_path of file 100; parents: whether its parent directories
\* exist; cwd_00000: the file '00000 x' in the working directory; tmpfiles:
\* the NamedTemporaryFile downloads; tmpdir: the TemporaryDirectory of a
\* migration ("none", "empty", or the bytes of its old_file)
FsInit == [canon |-> Absent, parents |-> FALSE, cwd_00000 |-> "-", tmpfiles |-> {},
           tmpdir |-> "none"]

\* no _paginate generator exists
NoPaginate == [pc |-> "idle", col |-> <<>>, fault |-> [page |-> 0, kind |-> "none"],
               kwargs |-> {}, response |-> <<>>, items |-> <<>>, requests |-> <<>>,
               yielded |-> <<>>, exc |-> "none"]

Init ==
    /\ db = [t \in Tables |-> <<>>]
    /\ ret = NoRet
    /\ remote = [raw |-> Raw("a", Url("t1"), NullUrl), bytes |-> "A", fault |-> NoRemoteFault]
    /\ fs = FsInit
    /\ run = Idle
    /\ aux = NoAux
    /\ pg = NoPaginate

Insert(t, id, raw, dry_run, now, fail) ==
    LET out == insert(db[t], t, id, raw, dry_run, now, fail)
    IN  /\ TotalRows([db EXCEPT ![t] = out.rows]) <= MaxRows
        /\ db' = [db EXCEPT ![t] = out.rows]
        /\ ret' = [op |-> "insert", t |-> t, id |-> id, dry_run |-> dry_run,
                   raised |-> out.raised, wrote |-> out.wrote, version |-> out.version,
                   rel |-> Relation(db[t], id, raw), data |-> <<>>]
        /\ UNCHANGED <<remote, fs, run, aux, pg>>

Get(t, id) ==
    /\ ret' = [op |-> "get", t |-> t, id |-> id, dry_run |-> FALSE, raised |-> FALSE,
               wrote |-> FALSE, version |-> -1, rel |-> "none", data |-> get(db[t], id)]
    /\ UNCHANGED <<db, remote, fs, run, aux, pg>>

DoInsert ==
    \E t \in Tables : \E id \in Idents(t) : \E raw \in Items(t) :
        \E dry_run \in BOOLEAN : \E now \in Times : \E fail \in FailPoints(dry_run) :
            Insert(t, id, raw, dry_run, now, fail)

DoGet == \E t \in Tables : \E id \in Idents(t) : Get(t, id)

Next == DoInsert \/ DoGet

Spec == Init /\ [][Next]_vars

(***************************************************************************)
(* The store driven directly, several identities and tables                *)
(***************************************************************************)
\* identities used per table: two FolderId, and one (module id, course id)
\* of _DBRTI_WithinCourse
TableIdents(t) ==
    IF t = "folder" THEN {<<10>>, <<11>>}
    ELSE IF t = "module" THEN {<<5, 1>>}
    ELSE {}

\* payloads offered per table
TableItems(t) == IF t = "folder" THEN PlainItems ELSE {Raw("a", NullUrl, NullUrl)}

DoInsertTables ==
    \E t \in Tables : \E id \in TableIdents(t) : \E raw \in TableItems(t) :
        \E now \in Times :
            Insert(t, id, raw, FALSE, now, 0)

NextTables == DoInsertTables

SpecTables == Init /\ [][NextTables]_vars

(***************************************************************************)
(* canvas/__init__.py: Canvas._api, _api_json, _paginate                   *)
(***************************************************************************)
\* a collection as the server pages it: the number of items of each page
Collections == UNION {[1..k -> PageSizes] : k \in 1..MaxPages}

\* what goes wrong with the request for one page: the response has a
\* non-success status ("status") or a body that is not a JSON list of the
\* item type ("body"); page 0 stands for no fault
Faults(col) ==
    {[page |-> 0, kind |-> "none"]}
        \cup [page : 1..Len(col), kind : {"status", "body"}]

\* the keyword arguments a list_* method may pass to _paginate
Kwargs == SUBSET {<<"method", "GET">>, <<"include", "user">>, <<"params", "per_page">>}

\* the j-th item of page i
Item(i, j) == <<i, j>>

PageItems(col, i) == [j \in 1..col[i] |-> Item(i, j)]

\* the server's answer to the request for page i: status, body, and the
\* Link header with rel="next" on every page but the last
Respond(col, fault, i) ==
    [page |-> i,
     status |-> IF fault.page = i /\ fault.kind = "status" THEN 500 ELSE 200,
     body |-> IF fault.page = i THEN <<"not a list", fault.kind>> ELSE PageItems(col, i),
     links |-> IF i < Len(col) THEN [rel \in {"next"} |-> [url |-> i + 1]]
               ELSE [rel \in {} |-> [url |-> 0]]]

\* a session that returns error responses instead of raising
raise_for_status_Off(status) == FALSE

\* raise_for_status=True: a status of 400 or more raises ClientResponseError
raise_for_status(status) == status >= 400

\* _api: the response, or the exception raised
api(col, fault, url) ==
    LET response == Respond(col, fault, url)
    IN  IF raise_for_status(response.status)
        THEN [exc |-> "ClientResponseError", response |-> <<>>]
        ELSE [exc |-> "none", response |-> <<response>>]

\* TypeAdapter(list[type_]).validate_json(text): <<>> for a ValidationError,
\* else <<items>>
validate_json(body) == IF Len(body) > 0 /\ body[1] = "not a list" THEN <<>> ELSE <<body>>

\* _api_json: (response, items), or the exception raised
api_json(col, fault, url) ==
    LET r == api(col, fault, url)
    IN  IF r.exc # "none" THEN [exc |-> r.exc, response |-> <<>>, items |-> <<>>]
        ELSE IF validate_json(r.response[1].body) = <<>>
        THEN [exc |-> "ValidationError", response |-> <<>>, items |-> <<>>]
        ELSE [exc |-> "none", response |-> r.response,
              items |-> validate_json(r.response[1].body)[1]]

\* every keyword argument forwarded to every page
kwargs_always_All(kwargs) == kwargs

\* kwargs_always: of the keyword arguments only `method` is kept
kwargs_always(kwargs) == {kv \in kwargs : kv[1] = "method"}

\* a loop that never follows the link
next_page_Ignored(response) == <<>>

\* (next_page := response.links.get('next')) is not None and 'url' in
\* next_page: <<>> or <<next_page['url']>>
next_page(response) ==
    IF "next" \in DOMAIN response.links THEN <<response.links["next"].url>> ELSE <<>>

\* `response, items = await self._api_json(Page, url, **kw)` inside the
\* generator: the request is sent, the exception leaves the generator or the
\* items of the page are ready to be yielded
Fetch(url, kw) ==
    LET r == api_json(pg.col, pg.fault, url)
        sent == Append(pg.requests, [url |-> url, kwargs |-> kw])
    IN  IF r.exc # "none"
        THEN pg' = [pg EXCEPT !.pc = "raised", !.exc = r.exc, !.requests = sent,
                              !.response = <<>>, !.items = <<>>]
        ELSE pg' = [pg EXCEPT !.pc = "page", !.requests = sent,
                              !.response = r.response, !.items = r.items]

\* a list_* method is called: the generator is created, nothing is requested
\* yet
PaginateCall(col, fault, kwargs) ==
    /\ pg.pc = "idle"
    /\ pg' = [NoPaginate EXCEPT !.pc = "first", !.col = col, !.fault = fault,
                                !.kwargs = kwargs]
    /\ UNCHANGED <<db, ret, remote, fs, run, aux>>

\* line 119: the first page, requested with kwargs | kwargs_always
PaginateFirst ==
    /\ pg.pc = "first"
    /\ Fetch(1, pg.kwargs \cup kwargs_always(pg.kwargs))
    /\ UNCHANGED <<db, ret, remote, fs, run, aux>>

\* lines 120-121 and 125-126: the next item of the page is yielded and the
\* consumer's loop body runs
PaginateYield ==
    /\ pg.pc = "page"
    /\ pg.items # <<>>
    /\ pg' = [pg EXCEPT !.items = Tail(@), !.yielded = Append(@, Head(pg.items))]
    /\ UNCHANGED <<db, ret, remote, fs, run, aux>>

\* lines 123-124: the page is used up and its response has a next link
PaginateNext ==
    /\ pg.pc = "page"
    /\ pg.items = <<>>
    /\ next_page(pg.response[1]) # <<>>
    /\ Fetch(next_page(pg.response[1])[1], kwargs_always(pg.kwargs))
    /\ UNCHANGED <<db, ret, remote, fs, run, aux>>

\* line 123: no next link, the generator is exhausted
PaginateEnd ==
    /\ pg.pc = "page"
    /\ pg.items = <<>>
    /\ next_page(pg.response[1]) = <<>>
    /\ pg' = [pg EXCEPT !.pc = "done"]
    /\ UNCHANGED <<db, ret, remote, fs, run, aux>>

\* the consumer's `async for` is over, by exhaustion or by the exception
PaginateOver ==
    /\ pg.pc \in {"done", "raised"}
    /\ pg' = NoPaginate
    /\ UNCHANGED <<db, ret, remote, fs, run, aux>>

DoPaginateCall ==
    \E col \in Collections : \E fault \in Faults(col) : \E kwargs \in Kwargs :
        PaginateCall(col, fault, kwargs)

NextPaginate ==
    \/ DoPaginateCall \/ PaginateFirst \/ PaginateYield \/ PaginateNext \/ PaginateEnd
    \/ PaginateOver

SpecPaginate == Init /\ [][NextPaginate]_vars

\* _paginate consumed to its end by an `async for`: the number of items
\* yielded and the exception that ends it ("none" when it is exhausted)
RECURSIVE paginate_from(_, _, _, _)
paginate_from(col, fault, url, n) ==
    LET r == api_json(col, fault, url)
    IN  IF r.exc # "none" THEN [yielded |-> n, exc |-> r.exc]
        ELSE IF next_page(r.response[1]) = <<>>
        THEN [yielded |-> n + Len(r.items), exc |-> "none"]
        ELSE paginate_from(col, fault, next_page(r.response[1])[1], n + Len(r.items))

paginate(col, fault) == paginate_from(col, fault, 1, 0)

\* how the server pages a list: one item per page, an empty list as one
\* empty page
Served(list) == IF list = <<>> THEN <<0>> ELSE [i \in 1..Len(list) |-> 1]

\* a list_* call consumed to its end: the items yielded and the exception
Listing(list, fault) ==
    LET p == paginate(Served(list), fault)
    IN  [items |-> SubSeq(list, 1, p.yielded), exc |-> p.exc]

(***************************************************************************)
(* main() step by step, with the remote changing between runs              *)
(***************************************************************************)
\* source_date of the inserts of a run: the clock read once per run
Now == aux.runs

\* db.folders.insert(subfolder.id, subfolder) for each listed subfolder
RECURSIVE InsertFolders(_, _, _)
InsertFolders(rows, subs, now) ==
    IF subs = <<>> THEN rows
    ELSE InsertFolders(insert(rows, "folder", <<Head(subs)>>, FolderRaw(Head(subs)),
                              FALSE, now, 0).rows,
                       Tail(subs), now)

\* the temporary file of the download in progress
TmpName == <<aux.runs, run.pending[1]>>

TmpFile(state, b) == [name |-> TmpName, state |-> state, bytes |-> b]

\* an exception leaves main(): the run is over
Raised(why) ==
    /\ run' = Idle
    /\ aux' = [aux EXCEPT !.stop = why, !.before = run.before]

\* an exception raised by a request leaves main(): the run is over
RaisedBy(f) ==
    /\ run' = Idle
    /\ aux' = [aux EXCEPT !.stop = f.exc, !.before = run.before]

\* what goes wrong with the requests of one call, as the site is now
FaultOf(at, id) ==
    IF remote.fault.at = at /\ remote.fault.id = id
    THEN [page |-> remote.fault.page, kind |-> remote.fault.kind]
    ELSE [page |-> 0, kind |-> "none"]

\* a handler that catches nothing
Caught_Nothing(exc) == FALSE

\* `except ClientResponseError as e:` around each of the two listings
Caught(exc) == exc = "ClientResponseError"

\* print(f'ERROR LISTING ... FOR FOLDER {cur_folder.id=}! : {e=}')
Logged(r, f) ==
    [r EXCEPT !.faults = Append(@, f), !.log = Append(@, [at |-> f.at, id |-> f.id])]

\* processing of the current file is over, go on with the next one the
\* listing yields
AfterFile(r) ==
    [r EXCEPT !.pending = Tail(@),
              !.pc = IF Tail(r.pending) = <<>> THEN "files_end" ELSE "dry"]

RunStart ==
    /\ run.pc = "idle"
    /\ aux.runs < MaxRuns
    /\ run' = [Idle EXCEPT !.pc = "course", !.courses = CourseIds]
    /\ aux' = [aux EXCEPT !.runs = @ + 1, !.stop = "none", !.before = Absent]
    /\ UNCHANGED <<db, ret, remote, fs, pg>>

\* lines 46-59: record the course, resolve and record its root folder; an
\* exception of course_resolve_folder_path is not caught
CourseStep ==
    /\ run.pc = "course"
    /\  LET course_id == Head(run.courses)
            root == RootFolderOf(course_id)
            c == insert(db["course"], "course", <<course_id>>, CourseRaw, FALSE, Now, 0)
            r == api_json(<<1>>, FaultOf("resolve", course_id), 1)
            f == insert(db["folder"], "folder", <<root>>, FolderRaw(root), FALSE, Now, 0)
        IN  IF r.exc # "none"
            THEN /\ db' = [db EXCEPT !["course"] = c.rows]
                 /\ RaisedBy([at |-> "resolve", id |-> course_id, exc |-> r.exc])
            ELSE /\ db' = [db EXCEPT !["course"] = c.rows, !["folder"] = f.rows]
                 /\ run' = [run EXCEPT !.pc = "loop", !.courses = Tail(@),
                                       !.queue = <<root>>, !.queued = @ \cup {root}]
                 /\ UNCHANGED aux
    /\ UNCHANGED <<ret, remote, fs, pg>>

\* lines 60-78: pop a folder, record and push the subfolders its listing
\* yields; a ClientResponseError of the listing is caught and printed
FolderStep ==
    /\ run.pc = "loop"
    /\ run.queue # <<>>
    /\ LET cur == run.queue[Len(run.queue)]
           rest == SubSeq(run.queue, 1, Len(run.queue) - 1)
       IN  LET l == Listing(SubfoldersOf(cur), FaultOf("subfolders", cur))
               f == [at |-> "subfolders", id |-> cur, exc |-> l.exc]
               popped == [run EXCEPT !.cur_folder = cur, !.queue = rest \o l.items,
                                     !.pc = "files",
                                     !.queued = @ \cup {l.items[i] : i \in 1..Len(l.items)}]
           IN  /\ db' = [db EXCEPT !["folder"] = InsertFolders(@, l.items, Now)]
               /\ IF l.exc = "none"
                  THEN run' = popped /\ UNCHANGED aux
                  ELSE IF Caught(l.exc)
                  THEN run' = Logged(popped, f) /\ UNCHANGED aux
                  ELSE RaisedBy(f)
    /\ UNCHANGED <<ret, remote, fs, pg>>

\* lines 80-81: the file listing of the folder is started
FilesStep ==
    /\ run.pc = "files"
    /\  LET l == Listing(FilesOf(run.cur_folder), FaultOf("files", run.cur_folder))
        IN  run' = [run EXCEPT !.pending = l.items, !.files_exc = l.exc,
                               !.pc = IF l.items = <<>> THEN "files_end" ELSE "dry"]
    /\ UNCHANGED <<db, ret, remote, fs, aux, pg>>

\* lines 81 and 136-137: the file listing yields nothing more; a
\* ClientResponseError that ends it is caught and printed
FilesEnd ==
    /\ run.pc = "files_end"
    /\ LET f == [at |-> "files", id |-> run.cur_folder, exc |-> run.files_exc]
           done == [run EXCEPT !.pc = "loop", !.files_exc = "none",
                                  !.visited = @ \cup {run.cur_folder}]
       IN  IF run.files_exc = "none"
           THEN run' = done /\ UNCHANGED aux
           ELSE IF Caught(run.files_exc)
           THEN run' = Logged(done, f) /\ UNCHANGED aux
           ELSE RaisedBy(f)
    /\ UNCHANGED <<db, ret, remote, fs, pg>>

\* the work queue is empty: next course, or main() returns
RunFinish ==
    /\ run.pc = "loop"
    /\ run.queue = <<>>
    /\ IF run.courses # <<>>
       THEN run' = [run EXCEPT !.pc = "course"] /\ UNCHANGED aux
       ELSE /\ run' = Idle
            /\ aux' = [aux EXCEPT !.synced = TRUE, !.stop = "returned"]
    /\ UNCHANGED <<db, ret, remote, fs, pg>>

\* lines 82-88: the dry-run insert decides whether to download
FileDryRun ==
    /\ run.pc = "dry"
    /\ LET out == insert(db["file"], "file", <<run.pending[1]>>, remote.raw, TRUE, Now, 0)
       IN  /\ run' = [run EXCEPT !.would_insert = out.wrote, !.version_num = out.version,
                                 !.download = "-", !.before = Absent,
                                 !.steps = <<"dry">>,
                                 !.pc = IF ShouldDownload(out.wrote) THEN "download"
                                        ELSE "commit"]
           /\ db' = [db EXCEPT !["file"] = out.rows]
    /\ UNCHANGED <<ret, remote, fs, aux, pg>>

\* lines 92-98: the temporary file is created and the first chunks written
DownloadStart ==
    /\ run.pc = "download"
    /\ fs' = [fs EXCEPT !.tmpfiles = @ \cup {TmpFile("partial", remote.bytes)}]
    /\ run' = [run EXCEPT !.pc = "downloading"]
    /\ UNCHANGED <<db, ret, remote, aux, pg>>

\* lines 97-100: the last chunk is written, the digest taken
DownloadFinish ==
    /\ run.pc = "downloading"
    /\ fs' = [fs EXCEPT !.tmpfiles = (@ \ {TmpFile("partial", remote.bytes)})
                                       \cup {TmpFile("full", remote.bytes)}]
    /\ run' = [run EXCEPT !.pc = "place", !.download = remote.bytes, !.before = fs.canon,
                          !.steps = Append(@, "download")]
    /\ UNCHANGED <<db, ret, remote, aux, pg>>

\* the placement of the download is over
Placed(r) == [r EXCEPT !.pc = "commit", !.steps = Append(@, "place")]

\* Path(download_tempfile.name).rename(target)
WithoutTmp == fs.tmpfiles \ {TmpFile("full", run.download)}

\* lines 132-134: nothing at the canonical path
PlaceFresh ==
    /\ run.pc = "place"
    /\ fs.canon.kind = "absent"
    /\ fs' = [fs EXCEPT !.parents = TRUE, !.canon = File(run.download), !.tmpfiles = WithoutTmp]
    /\ run' = Placed(run)
    /\ UNCHANGED <<db, ret, remote, aux, pg>>

\* lines 102-114: the canonical path is a directory of numbered entries
PlaceInDir ==
    /\ run.pc = "place"
    /\ fs.canon.kind = "dir"
    /\ LET latest == latest_existing_version(fs.canon)
       IN  IF latest = <<>>
           THEN run' = Placed(run) /\ UNCHANGED <<fs, aux>>
           ELSE IF HashesDiffer(file_digest(latest[1][2]), digest(run.download))
           THEN IF \E e \in fs.canon.entries : e[1] = run.version_num
                THEN Raised("assert not file_numbered_out_path.exists()") /\ UNCHANGED fs
                ELSE /\ fs' = [fs EXCEPT
                                  !.canon = Dir(@.entries \cup {<<run.version_num, run.download>>}),
                                  !.tmpfiles = WithoutTmp]
                     /\ run' = Placed(run)
                     /\ UNCHANGED aux
           ELSE run' = Placed(run) /\ UNCHANGED <<fs, aux>>
    /\ UNCHANGED <<db, ret, remote, pg>>

\* lines 115-126: the canonical path is a bare file; if the hashes differ it
\* is moved into a fresh temporary directory
PlaceBare ==
    /\ run.pc = "place"
    /\ fs.canon.kind = "file"
    /\ IF HashesDiffer(file_digest(fs.canon.bytes), digest(run.download))
       THEN /\ fs' = [fs EXCEPT !.tmpdir = fs.canon.bytes, !.canon = Absent]
            /\ run' = [run EXCEPT !.pc = "migrate_mkdir"]
       ELSE run' = Placed(run) /\ UNCHANGED fs
    /\ UNCHANGED <<db, ret, remote, aux, pg>>

\* lines 127-129: file_out_path.mkdir(), then assert version_num != 0; the
\* AssertionError leaves the `with TemporaryDirectory`, which removes it
MigrateMkdir ==
    /\ run.pc = "migrate_mkdir"
    /\ IF run.version_num = 0
       THEN /\ fs' = [fs EXCEPT !.canon = Dir({}), !.tmpdir = "none"]
            /\ Raised("assert version_num != 0")
       ELSE /\ fs' = [fs EXCEPT !.canon = Dir({})]
            /\ run' = [run EXCEPT !.pc = "migrate_old"]
            /\ UNCHANGED aux
    /\ UNCHANGED <<db, ret, remote, pg>>

\* line 130: (tmpdir / 'old_file').rename(f'00000 {filename_normalized}'),
\* a path relative to the working directory
MigrateOld ==
    /\ run.pc = "migrate_old"
    /\ fs' = [fs EXCEPT !.cwd_00000 = fs.tmpdir, !.tmpdir = "empty"]
    /\ run' = [run EXCEPT !.pc = "migrate_new"]
    /\ UNCHANGED <<db, ret, remote, aux, pg>>

\* line 131: the download is renamed to the numbered path; the temporary
\* directory is removed on leaving the `with`
MigrateNew ==
    /\ run.pc = "migrate_new"
    /\ fs' = [fs EXCEPT !.canon = Dir(@.entries \cup {<<run.version_num, run.download>>}),
                        !.tmpfiles = WithoutTmp, !.tmpdir = "none"]
    /\ run' = Placed(run)
    /\ UNCHANGED <<db, ret, remote, aux, pg>>

\* line 135: db.files.insert(file.id, file)
FileCommit ==
    /\ run.pc = "commit"
    /\ db' = [db EXCEPT !["file"] =
                insert(@, "file", <<run.pending[1]>>, remote.raw, FALSE, Now, 0).rows]
    /\ run' = AfterFile([run EXCEPT !.steps = Append(@, "commit")])
    /\ UNCHANGED <<ret, remote, fs, aux, pg>>

PlacementPcs == {"place", "migrate_mkdir", "migrate_old", "migrate_new"}

\* the process is killed: nothing is cleaned up
Crash ==
    /\ run.pc # "idle"
    /\ run' = Idle
    /\ aux' = [aux EXCEPT !.stop = IF run.pc \in PlacementPcs THEN "killed in placement"
                                   ELSE "killed",
                          !.before = run.before,
                          !.interrupted = IF /\ run.pc = "commit" /\ run.download # "-"
                                             /\ fs.canon # run.before
                                          THEN <<fs.canon>> ELSE @]
    /\ UNCHANGED <<db, ret, remote, fs, pg>>

\* between runs the file's metadata and content may change
RemoteChange ==
    /\ run.pc = "idle"
    /\ aux.runs < MaxRuns
    /\ \E r \in RemoteStates \ {remote} : r.fault = remote.fault /\ remote' = r
    /\ aux' = [aux EXCEPT !.synced = FALSE, !.interrupted = <<>>]
    /\ UNCHANGED <<db, ret, fs, run, pg>>

\* between runs the site starts to answer one request with a failure, and
\* goes on doing so
RemoteBreaks ==
    /\ run.pc = "idle"
    /\ aux.runs < MaxRuns
    /\ remote.fault = NoRemoteFault
    /\ \E f \in RemoteFaults \ {NoRemoteFault} : remote' = [remote EXCEPT !.fault = f]
    /\ aux' = [aux EXCEPT !.synced = FALSE, !.interrupted = <<>>]
    /\ UNCHANGED <<db, ret, fs, run, pg>>

NextRun ==
    \/ RunStart \/ CourseStep \/ FolderStep \/ FilesStep \/ FilesEnd \/ RunFinish
    \/ FileDryRun \/ DownloadStart \/ DownloadFinish
    \/ PlaceFresh \/ PlaceInDir \/ PlaceBare
    \/ MigrateMkdir \/ MigrateOld \/ MigrateNew
    \/ FileCommit \/ Crash \/ RemoteChange \/ RemoteBreaks

SpecRun == Init /\ [][NextRun]_vars

(***************************************************************************)
(* Properties of the store                                                 *)
(***************************************************************************)
\* the rows of one identity, in insertion order
RowsOf(rows, id) == SelectSeq(rows, LAMBDA r : r.id = id)

CurrentRows(rows, id) == SelectSeq(rows, LAMBDA r : r.id = id /\ r.is_current = 1)

\* the step is an insert of raw that met no storage error
IsStoreInsert(t, id, raw, dry_run) ==
    /\ ret'.op = "insert" /\ ret'.t = t /\ ret'.id = id /\ ret'.dry_run = dry_run
    /\ ret'.rel = Relation(db[t], id, raw)
    /\ \E now \in Times : Insert(t, id, raw, dry_run, now, 0)

\* C2: a non-dry-run insert of a payload whose normalized hash equals the
\* current row's hash returns (false, v), adds no row, and changes nothing of
\* any row but last_seen_on of the current row
InsertIdempotentStep ==
    \A t \in Tables : \A id \in Idents(t) : \A raw \in Items(t) :
        ( /\ ret'.op = "insert" /\ ~ret'.dry_run /\ ~ret'.raised
          /\ CurrentRows(db[t], id) # <<>>
          /\ CurrentRows(db[t], id)[1].data_hash = hash_for_db(t, raw)
          /\ IsStoreInsert(t, id, raw, FALSE) )
        => /\ ~ret'.wrote
           /\ ret'.version = CurrentRows(db[t], id)[1].version
           /\ Len(db'[t]) = Len(db[t])
           /\ \A i \in 1..Len(db[t]) :
                /\ [db'[t][i] EXCEPT !.last_seen_on = 0] = [db[t][i] EXCEPT !.last_seen_on = 0]
                /\ db[t][i].is_current = 0 => db'[t][i] = db[t][i]
           /\ \A u \in Tables \ {t} : db'[u] = db[u]

C2_InsertIdempotent == [][InsertIdempotentStep]_vars

\* a non-dry-run insert found the hash unchanged and moved last_seen_on
C2_Witness ==
    /\ ret.op = "insert" /\ ~ret.dry_run /\ ~ret.raised /\ ~ret.wrote /\ ret.version >= 0
    /\ \E i \in 1..Len(db["course"]) :
          /\ db["course"][i].is_current = 1
          /\ db["course"][i].last_seen_on # db["course"][i].saved_on

\* the version numbers of an identity's rows are 0 .. n-1, each once
Contiguous(rows, id) ==
    LET mine == RowsOf(rows, id)
    IN  /\ {mine[i].version : i \in 1..Len(mine)} = 0..(Len(mine) - 1)
        /\ \A i, j \in 1..Len(mine) : mine[i].version = mine[j].version => i = j

\* C3: the versions of every identity are contiguous from 0; the first
\* non-dry-run insert returns (true, 0), and a later one whose normalized hash
\* differs from the current row's returns (true, current version + 1)
MonotonicVersionStep ==
    /\ \A t \in Tables : \A id \in Idents(t) : Contiguous(db'[t], id)
    /\ \A t \in Tables : \A id \in Idents(t) : \A raw \in Items(t) :
        (ret'.op = "insert" /\ ~ret'.dry_run /\ ~ret'.raised /\ IsStoreInsert(t, id, raw, FALSE))
        => IF RowsOf(db[t], id) = <<>>
           THEN ret'.wrote /\ ret'.version = 0
           ELSE CurrentRows(db[t], id) # <<>>
                /\ ( CurrentRows(db[t], id)[1].data_hash # hash_for_db(t, raw)
                     => /\ ret'.wrote
                        /\ ret'.version = CurrentRows(db[t], id)[1].version + 1 )

C3_MonotonicVersions == [][MonotonicVersionStep]_vars

\* a third distinct-content insert returned (true, 2)
C3_Witness ==
    /\ ret.op = "insert" /\ ~ret.dry_run /\ ret.wrote /\ ret.version = 2
    /\ Len(RowsOf(db["course"], <<1>>)) = 3

\* C4: an identity with a row has exactly one current row, the one with the
\* highest version, in every committed state, also after an insert that
\* failed between its two write statements
C4_SingleCurrent ==
    \A t \in Tables : \A id \in Idents(t) :
        RowsOf(db[t], id) # <<>>
        => /\ Len(CurrentRows(db[t], id)) = 1
           /\ \A i \in 1..Len(db[t]) :
                db[t][i].id = id => db[t][i].version <= CurrentRows(db[t], id)[1].version

\* a version-changing insert on an identity with rows raised
C4_Witness ==
    /\ ret.op = "insert" /\ ret.raised /\ ret.rel = "content"
    /\ Len(RowsOf(db["course"], <<1>>)) >= 2

\* C5: a dry-run insert returns what the non-dry-run insert would return from
\* the same state and leaves every table as it was
DryRunStep ==
    \A t \in Tables : \A id \in Idents(t) : \A raw \in Items(t) :
        (ret'.op = "insert" /\ ret'.dry_run /\ IsStoreInsert(t, id, raw, TRUE))
        => /\ db' = db
           /\ ~ret'.raised
           /\ \A now \in Times :
                LET real == insert(db[t], t, id, raw, FALSE, now, 0)
                IN  ret'.wrote = real.wrote /\ ret'.version = real.version

C5_DryRun == [][DryRunStep]_vars

\* a dry run predicted a new version of an identity that has rows
C5_Witness ==
    /\ ret.op = "insert" /\ ret.dry_run /\ ret.wrote /\ ret.version >= 1
    /\ Len(RowsOf(db["course"], <<1>>)) = ret.version

\* C9: a Course payload that differs from the stored payload of the current
\* row only in url tokens has the same hash, returns (false, current
\* version) and adds no row
NormalizationStep ==
    \A id \in Idents("course") : \A raw \in Items("course") : \A dry_run \in BOOLEAN :
        ( /\ ret'.op = "insert" /\ ret'.dry_run = dry_run /\ ~ret'.raised
          /\ Relation(db["course"], id, raw) = "volatile"
          /\ IsStoreInsert("course", id, raw, dry_run) )
        => /\ hash_for_db("course", raw) = CurrentRows(db["course"], id)[1].data_hash
           /\ ~ret'.wrote
           /\ ret'.version = CurrentRows(db["course"], id)[1].version
           /\ Len(db'["course"]) = Len(db["course"])

C9_NormalizationIndependence == [][NormalizationStep]_vars

\* a committed course insert whose payload differed only in a token
C9_Witness ==
    /\ ret.op = "insert" /\ ret.t = "course" /\ ~ret.dry_run /\ ~ret.raised
    /\ ret.rel = "volatile" /\ ~ret.wrote /\ ret.version >= 0

\* C10 as stated: after a non-dry-run insert that differs from the current
\* row's payload only in a volatile field, get returns the payload of that
\* latest insert
LatestRawStep ==
    \A id \in Idents("course") : \A raw \in Items("course") :
        ( /\ ret'.op = "insert" /\ ~ret'.dry_run /\ ~ret'.raised
          /\ Relation(db["course"], id, raw) = "volatile"
          /\ IsStoreInsert("course", id, raw, FALSE) )
        => get(db'["course"], id) = <<raw>>

C10_Original == [][LatestRawStep]_vars

\* C10 amended: get returns the raw, un-normalized payload of the insert that
\* created the current version; an insert that differs from it only in a
\* volatile field leaves what get returns unchanged
CreatingRawStep ==
    \A id \in Idents("course") : \A raw \in Items("course") :
        (ret'.op = "insert" /\ ~ret'.dry_run /\ ~ret'.raised
            /\ IsStoreInsert("course", id, raw, FALSE))
        => /\ ret'.wrote => get(db'["course"], id) = <<raw>>
           /\ Relation(db["course"], id, raw) = "volatile"
                => /\ get(db'["course"], id) = get(db["course"], id)
                   /\ get(db'["course"], id) # <<raw>>

C10_PersistedIsCreatingRaw == [][CreatingRawStep]_vars

\* after a token-only insert, get still returns a payload that carries a token
C10_Witness ==
    /\ ret.op = "insert" /\ ret.t = "course" /\ ~ret.dry_run /\ ~ret.raised
    /\ ret.rel = "volatile" /\ ~ret.wrote
    /\ get(db["course"], <<1>>) # <<>>
    /\ get(db["course"], <<1>>)[1].image_download_url \in {Url(k) : k \in Tokens}

\* C12: no step lowers the last_seen_on of a row, and last_seen_on is never
\* below saved_on
LastSeenStep ==
    \A t \in Tables :
        /\ \A i \in 1..Len(db[t]) : db'[t][i].last_seen_on >= db[t][i].last_seen_on
        /\ \A i \in 1..Len(db'[t]) : db'[t][i].last_seen_on >= db'[t][i].saved_on

C12_LastSeenMonotonic == [][LastSeenStep]_vars

\* a row but for the two columns an insert may update
Inserted(row) == [row EXCEPT !.is_current = 0, !.last_seen_on = 0]

\* C11: every row keeps its place, identity, version, data, hash and
\* saved_on for ever; an insert changes of existing rows only is_current
\* (from 1 to 0) and last_seen_on, only in rows of its own identity, adds
\* rows of its own identity only, and leaves every other table as it was
AppendOnlyStep ==
    /\ \A t \in Tables :
          /\ Len(db'[t]) >= Len(db[t])
          /\ \A i \in 1..Len(db[t]) :
                /\ Inserted(db'[t][i]) = Inserted(db[t][i])
                /\ db'[t][i].is_current <= db[t][i].is_current
    /\ \A t \in Tables : \A id \in TableIdents(t) :
          (ret'.op = "insert" /\ ret'.t = t /\ ret'.id = id)
          => /\ \A u \in Tables \ {t} : db'[u] = db[u]
             /\ \A i \in 1..Len(db[t]) : db[t][i].id # id => db'[t][i] = db[t][i]
             /\ \A i \in (Len(db[t]) + 1)..Len(db'[t]) : db'[t][i].id = id

C11_AppendOnly == [][AppendOnlyStep]_vars

\* an insert created version 1 of one folder while the other folder has a
\* current row in the same table
C11_Witness ==
    /\ ret.op = "insert" /\ ret.t = "folder" /\ ~ret.dry_run /\ ret.wrote /\ ret.version = 1
    /\ \E i, j, k \in 1..Len(db["folder"]) :
          /\ db["folder"][i].id = db["folder"][j].id
          /\ db["folder"][i].is_current = 0 /\ db["folder"][j].is_current = 1
          /\ db["folder"][k].id # db["folder"][i].id /\ db["folder"][k].is_current = 1

\* C17: get returns None exactly as long as no non-dry-run insert for the
\* identity has committed; otherwise the identity has one is_current row and
\* get returns its payload, which is the payload of the last insert that
\* created a version (a committed insert that creates none, a dry run and a
\* failed insert leave what get returns as it is); and a get changes no table
GetCurrentStep ==
    /\ \A t \in Tables : \A id \in Idents(t) :
          /\ (get(db'[t], id) = <<>>)
                <=> (get(db[t], id) = <<>>
                       /\ ~(ret'.op = "insert" /\ ~ret'.dry_run /\ ~ret'.raised))
          /\ get(db'[t], id) # <<>>
                => /\ Len(CurrentRows(db'[t], id)) = 1
                   /\ get(db'[t], id) = <<ValidateJson(CurrentRows(db'[t], id)[1].data)>>
          /\ (ret'.op = "get" \/ ret'.dry_run \/ ret'.raised \/ ~ret'.wrote)
                => get(db'[t], id) = get(db[t], id)
          /\ \A raw \in Items(t) :
                ( /\ ret'.op = "insert" /\ ~ret'.dry_run /\ ~ret'.raised /\ ret'.wrote
                  /\ IsStoreInsert(t, id, raw, FALSE) )
                => get(db'[t], id) = <<raw>>
    /\ ret'.op = "get" => db' = db /\ ret'.data = get(db[ret'.t], ret'.id)

C17_GetCurrent == [][GetCurrentStep]_vars

\* a get returned the payload of version 1 of an identity with two rows
C17_Witness ==
    /\ ret.op = "get" /\ ret.data # <<>>
    /\ Len(RowsOf(db["course"], <<1>>)) = 2
    /\ CurrentRows(db["course"], <<1>>)[1].version = 1
    /\ ret.data = <<ValidateJson(CurrentRows(db["course"], <<1>>)[1].data)>>
    /\ ret.data # <<ValidateJson(db["course"][1].data)>>

(***************************************************************************)
(* Properties of the pagination                                            *)
(***************************************************************************)
\* the items of the first k pages, in page order and item order
RECURSIVE PagesConcat(_, _)
PagesConcat(col, k) == IF k = 0 THEN <<>> ELSE PagesConcat(col, k - 1) \o PageItems(col, k)

IsPrefix(a, b) == Len(a) <= Len(b) /\ a = SubSeq(b, 1, Len(a))

\* C13: the requests are for pages 1, 2, ... in order, each once; the
\* request for a page is sent only when every item of the pages before it
\* has been yielded; what has been yielded is a prefix of the pages'
\* concatenation; and when the generator is exhausted it has yielded the
\* whole concatenation with exactly one request per page
C13_PaginationComplete ==
    pg.pc # "idle"
    => LET r == Len(pg.requests)
       IN  /\ \A i \in 1..r : pg.requests[i].url = i
           /\ r <= Len(pg.col)
           /\ r >= 1 => IsPrefix(PagesConcat(pg.col, r - 1), pg.yielded)
           /\ IsPrefix(pg.yielded, PagesConcat(pg.col, r))
           /\ pg.pc = "done"
                => /\ pg.yielded = PagesConcat(pg.col, Len(pg.col))
                   /\ r = Len(pg.col)

\* three pages of two items each have been yielded with three requests
C13_Witness ==
    /\ pg.pc = "done" /\ Len(pg.col) = 3 /\ \A i \in 1..3 : pg.col[i] = 2
    /\ Len(pg.yielded) = 6 /\ Len(pg.requests) = 3

\* C19: once the page that answers with a non-success status has been
\* requested, the generator has raised ClientResponseError, that request is
\* the last one (the page is not requested again, no later page is
\* requested), and exactly the items of the pages before it have been
\* yielded; a generator that has raised sends nothing more
PaginationFailureStep ==
    /\ (pg'.fault.kind = "status" /\ Len(pg'.requests) >= pg'.fault.page)
       => /\ pg'.pc = "raised"
          /\ pg'.exc = "ClientResponseError"
          /\ Len(pg'.requests) = pg'.fault.page
          /\ pg'.requests[Len(pg'.requests)].url = pg'.fault.page
          /\ pg'.yielded = PagesConcat(pg'.col, pg'.fault.page - 1)
    /\ pg.pc = "raised" => pg' = NoPaginate

C19_PaginationFailure == [][PaginationFailureStep]_vars

\* the third page failed after the four items of two pages had been yielded
C19_Witness ==
    /\ pg.pc = "raised" /\ pg.exc = "ClientResponseError"
    /\ pg.fault = [page |-> 3, kind |-> "status"]
    /\ Len(pg.requests) = 3 /\ Len(pg.yielded) = 4

\* C28: a non-dry-run insert of a payload whose normalized hash differs from
\* the current row's hash but equals the hash of an older, non-current row
\* of the identity returns (true, current version + 1) and adds a new
\* current row with that hash; so A, then B, then A again gives the versions
\* 0, 1, 2
CurrentOnlyStep ==
    \A t \in Tables : \A id \in Idents(t) : \A raw \in Items(t) :
        ( /\ ret'.op = "insert" /\ ~ret'.dry_run /\ ~ret'.raised
          /\ ret'.t = t /\ ret'.id = id
          /\ CurrentRows(db[t], id) # <<>>
          /\ CurrentRows(db[t], id)[1].data_hash # hash_for_db(t, raw)
          /\ \E i \in 1..Len(db[t]) :
                /\ db[t][i].id = id /\ db[t][i].is_current = 0
                /\ db[t][i].data_hash = hash_for_db(t, raw)
          /\ IsStoreInsert(t, id, raw, FALSE) )
        => /\ ret'.wrote
           /\ ret'.version = CurrentRows(db[t], id)[1].version + 1
           /\ Len(db'[t]) = Len(db[t]) + 1
           /\ CurrentRows(db'[t], id)
                 = <<[db'[t][Len(db'[t])] EXCEPT !.version = ret'.version,
                                                 !.data_hash = hash_for_db(t, raw)]>>

C28_CurrentRowOnly == [][CurrentOnlyStep]_vars

\* the third insert returned (true, 2): the rows of the identity have the
\* versions 0, 1, 2 and the hashes A, B, A
C28_Witness ==
    /\ ret.op = "insert" /\ ~ret.dry_run /\ ~ret.raised /\ ret.wrote /\ ret.version = 2
    /\ LET mine == RowsOf(db["course"], <<1>>)
       IN  /\ Len(mine) = 3
           /\ mine[1].version = 0 /\ mine[2].version = 1 /\ mine[3].version = 2
           /\ mine[1].data_hash = mine[3].data_hash
           /\ mine[1].data_hash # mine[2].data_hash
           /\ mine[3].is_current = 1 /\ mine[1].is_current = 0

(***************************************************************************)
(* Properties of the traversal and of the file placement                   *)
(***************************************************************************)
\* the number of rows and the current version of every identity in a table
Versions(rows) == [i \in 1..Len(rows) |-> <<rows[i].id, rows[i].version, rows[i].is_current>>]

\* C1: once a run has returned, a run against the unchanged remote adds no
\* row to any table, raises no version and changes nothing on disk (no
\* download, no rename, no directory created)
IdempotentStep ==
    aux.synced
    => /\ \A t \in Tables : Versions(db'[t]) = Versions(db[t])
       /\ fs' = fs

C1_RunIdempotent == [][IdempotentStep]_vars

\* a second run against the unchanged remote has gone through its folders
\* and files and is about to return
C1_Witness ==
    /\ aux.synced /\ aux.runs >= 2
    /\ run.pc = "loop" /\ run.queue = <<>> /\ run.cur_folder = 20 /\ run.courses = <<>>
    /\ Len(db["file"]) >= 1 /\ fs.canon.kind # "absent"

\* the site answers the listing `at` of folder id with a non-success status
ListingFails(at, id) ==
    remote.fault.at = at /\ remote.fault.id = id /\ remote.fault.kind = "status"

\* the step is taken by main(), not by a kill of the process
OwnStep == aux'.stop \notin {"killed", "killed in placement"}

\* the set of the elements of a sequence
Range(seq) == {seq[i] : i \in 1..Len(seq)}

\* C14: a step of main() in which the subfolder listing or the file listing
\* of a folder fails with a non-success status does not end the run: it
\* prints an error for that folder and keeps the work queue and the courses
\* still to come; and when main() returns, every folder that was put on the
\* work queue has had both its listings attempted, every course has been
\* recorded and its root folder processed, and every listing that failed
\* has its error line
FaultIsolationStep ==
    /\ ( /\ run.pc = "loop" /\ run.queue # <<>> /\ OwnStep
          /\ ListingFails("subfolders", run.queue[Len(run.queue)]) )
       => /\ run'.pc = "files"
          /\ run'.log = Append(run.log, [at |-> "subfolders", id |-> run.queue[Len(run.queue)]])
          /\ IsPrefix(SubSeq(run.queue, 1, Len(run.queue) - 1), run'.queue)
          /\ run'.courses = run.courses
    /\ ( /\ run.pc = "files_end" /\ OwnStep
          /\ ListingFails("files", run.cur_folder) )
       => /\ run'.pc = "loop"
          /\ run'.log = Append(run.log, [at |-> "files", id |-> run.cur_folder])
          /\ run'.queue = run.queue
          /\ run'.courses = run.courses
    /\ (run.pc = "loop" /\ aux'.stop = "returned")
       => /\ run.queued \subseteq run.visited
          /\ \A i \in 1..Len(CourseIds) :
                /\ CurrentIdx(db["course"], <<CourseIds[i]>>) # {}
                /\ RootFolderOf(CourseIds[i]) \in run.visited
          /\ \A at \in {"subfolders", "files"} : \A id \in run.visited :
                ListingFails(at, id) => [at |-> at, id |-> id] \in Range(run.log)

C14_SubContainerIsolation == [][FaultIsolationStep]_vars

\* the subfolder listing of folder 12 failed while folder 11 was on the work
\* queue; folder 11 and course 2 have been processed since and main() is
\* about to return
C14_Witness ==
    /\ run.pc = "loop" /\ run.queue = <<>> /\ run.courses = <<>>
    /\ ListingFails("subfolders", 12)
    /\ run.log = <<[at |-> "subfolders", id |-> 12]>>
    /\ run.visited = {10, 11, 12, 20}
    /\ CurrentIdx(db["course"], <<2>>) # {}

\* C15: a step of main() in which resolving the root folder of a course
\* fails with a non-success status does not end the run: the failure is
\* printed and the remaining courses are still to be traversed
ContainerIsolationStep ==
    ( /\ run.pc = "course" /\ OwnStep
      /\ remote.fault.at = "resolve" /\ remote.fault.id = Head(run.courses)
      /\ remote.fault.kind = "status" )
    => /\ run'.pc # "idle"
       /\ Len(run'.log) = Len(run.log) + 1
       /\ run'.courses = Tail(run.courses)

C15_ContainerIsolation == [][ContainerIsolationStep]_vars

\* the site answers the listing `at` of folder id with a body that is not a
\* JSON list of the item type
BodyMalformed(at, id) ==
    remote.fault.at = at /\ remote.fault.id = id /\ remote.fault.kind = "body"

\* C16: a step of main() in which the subfolder listing or the file listing
\* of a folder gets a malformed page body does not end the run: it prints an
\* error for that folder and keeps the work queue and the courses still to
\* come, as for a non-success status
DecodingIsolationStep ==
    /\ ( /\ run.pc = "loop" /\ run.queue # <<>> /\ OwnStep
          /\ BodyMalformed("subfolders", run.queue[Len(run.queue)]) )
       => /\ run'.pc = "files"
          /\ run'.log = Append(run.log, [at |-> "subfolders", id |-> run.queue[Len(run.queue)]])
          /\ IsPrefix(SubSeq(run.queue, 1, Len(run.queue) - 1), run'.queue)
          /\ run'.courses = run.courses
    /\ ( /\ run.pc = "files_end" /\ OwnStep
          /\ BodyMalformed("files", run.cur_folder) )
       => /\ run'.pc = "loop"
          /\ run'.log = Append(run.log, [at |-> "files", id |-> run.cur_folder])
          /\ run'.queue = run.queue
          /\ run'.courses = run.courses

C16_DecodingIsolation == [][DecodingIsolationStep]_vars

\* C18: when main() has returned, every module of every course has a
\* current row in the module table under (module id, course id), and every
\* item of every module has a current row in the module-item table under
\* (item id, course id, module id)
C18_ModuleBranch ==
    aux.stop = "returned"
    => \A c \in Range(CourseIds) : \A m \in Range(ModulesOf(c)) :
          /\ CurrentIdx(db["module"], <<m, c>>) # {}
          /\ \A it \in Range(ModuleItemsOf(c, m)) :
                CurrentIdx(db["moduleitem"], <<it, c, m>>) # {}

\* C20: the steps taken for a file are, in this order, the dry-run insert,
\* then the download and then the placement if and only if the dry run
\* returned true, then the real insert; and main() goes on to the next file
\* of the listing only when the real insert of the file has been executed
FileStepOrder ==
    /\ run'.steps # <<>>
       => IsPrefix(run'.steps, IF run'.would_insert
                               THEN <<"dry", "download", "place", "commit">>
                               ELSE <<"dry", "commit">>)
    /\ (Len(run'.pending) < Len(run.pending) /\ run'.pc # "idle")
       => /\ run'.steps # <<>>
          /\ run'.steps[Len(run'.steps)] = "commit"

C20_FileStepOrder == [][FileStepOrder]_vars

\* the real insert of the file has been executed on the skip-download path,
\* in a run after the one that downloaded, placed and recorded the file
C20_Witness ==
    /\ run.pc = "files_end" /\ run.steps = <<"dry", "commit">> /\ ~run.would_insert
    /\ aux.runs >= 2
    /\ Len(db["file"]) >= 1 /\ fs.canon.kind = "file"

\* the bytes of the most recent version at a path: <<>> or <<bytes>>
LatestBytes(path) ==
    IF path.kind = "file" THEN <<path.bytes>>
    ELSE IF latest_existing_version(path) = <<>> THEN <<>>
    ELSE <<latest_existing_version(path)[1][2]>>

\* C6: after the placement of a download whose bytes equal the most recent
\* version on disk, the canonical path is as it was before
C6_FileDedup ==
    ( /\ run.pc = "commit" /\ run.would_insert /\ run.download # "-"
      /\ LatestBytes(run.before) = <<run.download>> )
    => fs.canon = run.before

\* C7: after the placement of bytes B with predicted version 1 over a bare
\* file holding different bytes A, the canonical path is a directory with
\* exactly the entries 0 (holding A) and 1 (holding B)
C7_MigrationResult ==
    ( /\ run.pc = "commit" /\ run.would_insert /\ run.download # "-"
      /\ run.before.kind = "file" /\ run.before.bytes # run.download
      /\ run.version_num = 1 )
    => fs.canon = Dir({<<0, run.before.bytes>>, <<1, run.download>>})

\* the bytes of the versions kept at a path
BytesUnder(path) ==
    IF path.kind = "file" THEN {path.bytes} ELSE {e[2] : e \in path.entries}

\* C8: when a run stops inside a placement (killed, or an assertion raised),
\* every version the canonical path held when the placement began is still
\* there with its bytes
C8_CrashSafePlacement ==
    aux.stop \in {"killed in placement", "assert version_num != 0",
                  "assert not file_numbered_out_path.exists()"}
    => BytesUnder(aux.before) \subseteq BytesUnder(fs.canon)

\* the version numbers of the rows of file 100 in the file table
FileVersions(rows) == {rows[i].version : i \in {j \in 1..Len(rows) : rows[j].id = <<100>>}}

\* C21: an entry that appears under the canonical path carries the version
\* number the dry-run insert predicted for the file; and when the processing
\* of a file is over (the real insert has been executed), every numbered
\* entry under its canonical path has the version number of a row of the
\* file in the file table, and no two entries have the same number
EntriesMirrorStep ==
    /\ \A e \in fs'.canon.entries \ fs.canon.entries : e[1] = run.version_num
    /\ (run.pc = "commit" /\ run'.pc # "idle")
       => /\ \A e \in fs'.canon.entries : e[1] \in FileVersions(db'["file"])
          /\ \A e1, e2 \in fs'.canon.entries : e1[1] = e2[1] => e1 = e2

C21_EntriesMirrorVersions == [][EntriesMirrorStep]_vars

(***************************************************************************)
(* Properties of the pagination parameters                                 *)
(***************************************************************************)
\* C22: the first request of _paginate goes to the caller's path with all the
\* caller's keyword arguments (params, include, method); every later request
\* goes to the url of the next link of the response before it and carries
\* the caller's method, if any, and neither params nor include
ParameterForwardingStep ==
    Len(pg'.requests) = Len(pg.requests) + 1
    => LET sent == pg'.requests[Len(pg'.requests)]
       IN  IF pg.requests = <<>>
           THEN sent.url = 1 /\ sent.kwargs = pg.kwargs
           ELSE /\ "next" \in DOMAIN pg.response[1].links
                /\ sent.url = pg.response[1].links["next"].url
                /\ \A kv \in sent.kwargs : kv[1] \notin {"params", "include"}
                /\ \A kv \in pg.kwargs : kv[1] = "method" <=> kv \in sent.kwargs

C22_ParameterForwarding == [][ParameterForwardingStep]_vars

\* a call with params, include and method has sent its third request
C22_Witness ==
    /\ pg.kwargs = {<<"method", "GET">>, <<"include", "user">>, <<"params", "per_page">>}
    /\ Len(pg.requests) = 3
    /\ pg.requests[1].kwargs = pg.kwargs
    /\ pg.requests[3] = [url |-> 3, kwargs |-> {<<"method", "GET">>}]

(***************************************************************************)
(* Properties of the traversal as a whole                                  *)
(***************************************************************************)
\* the folders reachable from the root folders of the courses
FolderTree ==
    LET roots == {RootFolderOf(c) : c \in Range(CourseIds)}
        below(S) == UNION {Range(SubfoldersOf(f)) : f \in S}
    IN  roots \cup below(roots) \cup below(below(roots))

\* all the listings of the site succeed
ListingsSucceed == remote.fault = NoRemoteFault

\* C23: while all listings succeed, a folder taken from the work queue has
\* not been processed before in this run and has its row in the folder table
\* already; and the work-queue loop is left only with the queue empty:
\* main() itself stops only by returning, every folder reachable from the
\* root folders having been taken from the queue and had its subfolders and
\* files listed
TraversalStep ==
    ListingsSucceed
    => /\ (run.pc = "loop" /\ run'.pc = "files")
          => /\ run'.cur_folder \notin run.visited
             /\ CurrentIdx(db["folder"], <<run'.cur_folder>>) # {}
       /\ (run.pc # "idle" /\ run'.pc = "idle" /\ OwnStep)
          => /\ aux'.stop = "returned"
             /\ run.queue = <<>>
             /\ run.visited = FolderTree

C23_TraversalTerminates == [][TraversalStep]_vars

(***************************************************************************)
(* Properties of the temporary downloads                                   *)
(***************************************************************************)
\* C24: when the processing of a downloaded file ends, by the real insert
\* after the placement (the download placed or discarded) or by an error
\* raised in the placement, the temporary file of the download is no longer
\* at its temporary location
TempCleanupStep ==
    ( /\ run.download # "-" /\ OwnStep
      /\ \/ run.pc = "commit"
         \/ run.pc \in PlacementPcs /\ run'.pc = "idle" )
    => \A f \in fs'.tmpfiles : f.name # TmpName

C24_TempCleanup == [][TempCleanupStep]_vars

(***************************************************************************)
(* Properties of the two inserts of a file                                 *)
(***************************************************************************)
\* C25: the real insert that ends the processing of a file returns the pair
\* (wrote a new version, version number) that the dry-run insert at the
\* start of the processing returned
PredictionStep ==
    (run.pc = "commit" /\ run'.pc # "idle")
    => LET out == insert(db["file"], "file", <<run.pending[1]>>, remote.raw, FALSE, Now, 0)
       IN  /\ db'["file"] = out.rows
           /\ out.wrote = run.would_insert
           /\ out.version = run.version_num

C25_PredictionMatchesCommit == [][PredictionStep]_vars

\* the real insert has written version 1 of the file, as the dry run of the
\* same processing predicted, after the download was placed
C25_Witness ==
    /\ run.steps = <<"dry", "download", "place", "commit">>
    /\ run.would_insert /\ run.version_num = 1
    /\ \E i \in 1..Len(db["file"]) :
          db["file"][i].version = 1 /\ db["file"][i].is_current = 1

(***************************************************************************)
(* Properties of a run that follows an interrupted one                     *)
(***************************************************************************)
\* C26: after a run was killed between putting a file's download on disk
\* and the real insert, the processing of that file in a later run against
\* the same remote does not raise: it ends with the real insert, after which
\* the current row of the file holds the remote's metadata and every version
\* that was on disk at the interruption is still under the canonical path
RecoveryStep ==
    ( /\ aux.interrupted # <<>> /\ OwnStep
      /\ \/ run.pc = "commit"
         \/ run.pc \in PlacementPcs /\ run'.pc = "idle" )
    => /\ run.pc = "commit"
       /\ \E i \in CurrentIdx(db'["file"], <<run.pending[1]>>) :
             db'["file"][i].data = JsonDumps(remote.raw)
       /\ BytesUnder(aux.interrupted[1]) \subseteq BytesUnder(fs'.canon)

C26_RecoveryAfterInterruption == [][RecoveryStep]_vars

(***************************************************************************)
(* Properties relating the file table and the disk                         *)
(***************************************************************************)
\* C27: when the real insert that ends the processing of a file has written
\* a new version, the bytes downloaded for it are the most recent version
\* under the canonical path: the bare file, or the highest-numbered entry of
\* the directory
CommittedContentStep ==
    ( /\ run.pc = "commit" /\ run'.pc # "idle"
      /\ insert(db["file"], "file", <<run.pending[1]>>, remote.raw, FALSE, Now, 0).wrote )
    => /\ run.download # "-"
       /\ LatestBytes(fs'.canon) = <<run.download>>

C27_CommittedContentOnDisk == [][CommittedContentStep]_vars

====
